---- MODULE Spec2Model ----
(***************************************************************************)
(* Extended Kalman filter for the CTRV vehicle model                       *)
(* (Extended-Kalman-Filter-CTRV.py): the filter loop, its configuration    *)
(* and the numpy arithmetic it runs on.                                    *)
(*                                                                         *)
(* Numbers.  The script computes in IEEE binary64, which carries 15.95     *)
(* decimal digits.  Here a number is a decimal floating-point value with   *)
(* a sixteen digit mantissa and an unbounded exponent; every operation     *)
(* rounds its result to sixteen digits.  What is kept of binary64: the     *)
(* precision, rounding after every operation, absorption of small          *)
(* addends, cancellation, exact x + 0 and x * 0 = 0, and the non-finite    *)
(* results of a division by zero.  What is not kept: the binary radix,     *)
(* overflow and underflow of the exponent, signed zeros.  NaN stands for   *)
(* every non-finite value: in this program a quotient by a zero yaw rate   *)
(* is always multiplied by an exact zero difference                        *)
(* (sin(0*dt+psi) - sin(psi)), so each infinity becomes a NaN at once.     *)
(***************************************************************************)
EXTENDS Integers, Sequences, FiniteSets, TLC

\* ------------------------------------------------------------------------
\* Floating-point arithmetic (numpy float64, at sixteen decimal digits)
\* ------------------------------------------------------------------------

\* A mantissa is two words of eight digits, multiplied in limbs of four.
WORD == 100000000

LIMB == 10000

Abs(n) == IF n < 0 THEN -n ELSE n

Sgn(n) == IF n < 0 THEN -1 ELSE 1

\* 10^k, k in 0..8
Pow10(k) == <<1, 10, 100, 1000, 10000, 100000, 1000000, 10000000, 100000000>>[k + 1]

\* The number of digits of n, 0 < n < 10^8
NDigits(n) ==
    CASE n < 10 -> 1
      [] n < 100 -> 2
      [] n < 1000 -> 3
      [] n < 10000 -> 4
      [] n < 100000 -> 5
      [] n < 1000000 -> 6
      [] n < 10000000 -> 7
      [] OTHER -> 8

\* <<sg, hi, lo, e>> is sg * (hi * 10^8 + lo) * 10^e, 10^7 <= hi < 10^8.
NaN == <<0, 0, 0, 0>>

Zero == <<1, 0, 0, 0>>

IsNaN(a) == a[1] = 0

\* The float nearest to sg * (hi * 10^8 + lo + g / 10^8) * 10^e, for any
\* words hi < 2 * 10^8, lo < 10^8, g < 10^8: the mantissa is brought to
\* sixteen digits and rounded on the guard word g, ties away from zero.
RECURSIVE Pack(_, _, _, _, _)
PackShifted(sg, hi, lo, g, e, z) ==
    Pack(sg, hi * Pow10(z) + (lo \div Pow10(8 - z)),
         (lo % Pow10(8 - z)) * Pow10(z) + (g \div Pow10(8 - z)),
         (g % Pow10(8 - z)) * Pow10(z), e - z)

Pack(sg, hi, lo, g, e) ==
    CASE hi = 0 /\ lo = 0 /\ g = 0 -> Zero
      [] hi = 0 -> Pack(sg, lo, g, 0, e - 8)
      [] hi >= WORD ->
           Pack(sg, hi \div 10, (hi % 10) * (WORD \div 10) + (lo \div 10),
                (lo % 10) * (WORD \div 10) + (g \div 10), e + 1)
      [] hi < WORD \div 10 -> PackShifted(sg, hi, lo, g, e, 8 - NDigits(hi))
      [] 2 * g < WORD -> <<sg, hi, lo, e>>
      [] lo + 1 < WORD -> <<sg, hi, lo + 1, e>>
      [] hi + 1 < WORD -> <<sg, hi + 1, 0, e>>
      [] OTHER -> <<sg, WORD \div 10, 0, e + 1>>

\* A literal: n * 10^e.
F(n, e) == Pack(Sgn(n), Abs(n) \div WORD, Abs(n) % WORD, 0, e)

FNeg(a) == IF a = Zero THEN Zero ELSE <<-a[1], a[2], a[3], a[4]>>

FAbs(a) == <<Abs(a[1]), a[2], a[3], a[4]>>

\* The words <<h, l, g>> moved k digits to the right.
RECURSIVE ShiftR(_, _, _, _)
ShiftR(h, l, g, k) ==
    CASE k = 0 -> <<h, l, g>>
      [] k >= 8 -> ShiftR(0, h, l, k - 8)
      [] OTHER ->
         << h \div Pow10(k),
            (h % Pow10(k)) * Pow10(8 - k) + (l \div Pow10(k)),
            (l % Pow10(k)) * Pow10(8 - k) + (g \div Pow10(k)) >>

\* The float of sg * (h * 10^8 + l + g / 10^8) * 10^e for words of either
\* sign: carries and borrows go up, a negative total changes the sign.
RECURSIVE Carry(_, _, _, _, _)
Carry(sg, h, l, g, e) ==
    IF h + ((l + (g \div WORD)) \div WORD) < 0 THEN Carry(-sg, -h, -l, -g, e)
    ELSE Pack(sg, h + ((l + (g \div WORD)) \div WORD), (l + (g \div WORD)) % WORD,
              g % WORD, e)

\* a + b for numbers with a[4] >= b[4], b given by its shifted words.
AddShifted(a, rel, b) == Carry(a[1], a[2] + rel * b[1], a[3] + rel * b[2], rel * b[3], a[4])

AddAligned(a, b) ==
    IF a[4] - b[4] > 24 THEN a
    ELSE AddShifted(a, a[1] * b[1], ShiftR(b[2], b[3], 0, a[4] - b[4]))

\* a + b
FAdd(a, b) ==
    CASE IsNaN(a) \/ IsNaN(b) -> NaN
      [] a = Zero -> b
      [] b = Zero -> a
      [] a[4] >= b[4] -> AddAligned(a, b)
      [] OTHER -> AddAligned(b, a)

\* a - b
FSub(a, b) == FAdd(a, FNeg(b))

\* The limbs of a mantissa, lowest first.
Limbs(a) == <<a[3] % LIMB, a[3] \div LIMB, a[2] % LIMB, a[2] \div LIMB>>

\* The columns of the product of two mantissas, lowest first.
Columns(A, B) ==
    << A[1] * B[1],
       A[1] * B[2] + A[2] * B[1],
       A[1] * B[3] + A[2] * B[2] + A[3] * B[1],
       A[1] * B[4] + A[2] * B[3] + A[3] * B[2] + A[4] * B[1],
       A[2] * B[4] + A[3] * B[3] + A[4] * B[2],
       A[3] * B[4] + A[4] * B[3],
       A[4] * B[4] >>

\* The words of the sum of the columns C[k] * LIMB^(k-1), from the lowest:
\* each is its two columns and the carry c of the word below it; the top
\* word is left whole.
Word0(C) == C[1] + (C[2] % LIMB) * LIMB

Word1(C, c) == (C[2] \div LIMB) + C[3] + (C[4] % LIMB) * LIMB + c

Word2(C, c) == (C[4] \div LIMB) + C[5] + (C[6] % LIMB) * LIMB + c

Word3(C, c) == (C[6] \div LIMB) + C[7] + c

\* The product rounded on the word below its sixteen digits.
MulTop(sg, C, w1, e) ==
    Pack(sg, Word3(C, Word2(C, w1 \div WORD) \div WORD), Word2(C, w1 \div WORD) % WORD,
         w1 % WORD, e + 16)

MulPack(sg, C, e) == MulTop(sg, C, Word1(C, Word0(C) \div WORD), e)

\* a * b
FMul(a, b) ==
    CASE IsNaN(a) \/ IsNaN(b) -> NaN
      [] a = Zero \/ b = Zero -> Zero
      [] OTHER -> MulPack(a[1] * b[1], Columns(Limbs(a), Limbs(b)), a[4] + b[4])

\* <<xh, xl>> - q * <<bh, bl>>, as words
Remainder(xh, xl, bh, bl, q) ==
    << xh - q * bh + ((xl - q * bl) \div WORD), (xl - q * bl) % WORD >>

\* <<digit, remainder words>> of <<xh, xl>> by <<bh, bl>> >= 10^15, for a
\* quotient below ten: the digit is estimated from the high words and is
\* then at most one too small.
Adjusted(q, r, bh, bl) ==
    IF r[1] > bh \/ (r[1] = bh /\ r[2] >= bl)
    THEN <<q + 1, Remainder(r[1], r[2], bh, bl, 1)>>
    ELSE <<q, r>>

DivStep(xh, xl, bh, bl) ==
    Adjusted(xh \div (bh + 1), Remainder(xh, xl, bh, bl, xh \div (bh + 1)), bh, bl)

\* Long division: the digits q so far, the last step s.  Eighteen digits:
\* one before the point, seventeen after.
RECURSIVE DivDigits(_, _, _, _)
DivDigits(q, s, bh, bl) ==
    IF Len(q) = 18 THEN q
    ELSE DivDigits(Append(q, s[1]),
                   DivStep(s[2][1] * 10 + ((s[2][2] * 10) \div WORD), (s[2][2] * 10) % WORD,
                           bh, bl),
                   bh, bl)

\* The word of the eight digits q[k..k+7]
DigitWord(q, k) ==
    (q[k] * 10 + q[k + 1]) * 1000000 + (q[k + 2] * 10 + q[k + 3]) * 10000
    + (q[k + 4] * 10 + q[k + 5]) * 100 + (q[k + 6] * 10 + q[k + 7])

DivPack(sg, q, e) ==
    Pack(sg, DigitWord(q, 1), DigitWord(q, 9), (q[17] * 10 + q[18]) * 1000000, e)

\* a / b; x / 0 is non-finite (numpy warns and carries on).
FDiv(a, b) ==
    CASE IsNaN(a) \/ IsNaN(b) -> NaN
      [] b = Zero -> NaN
      [] a = Zero -> Zero
      [] OTHER ->
           DivPack(a[1] * b[1],
                   DivDigits(<<>>, DivStep(a[2], a[3], b[2], b[3]), b[2], b[3]),
                   a[4] - b[4] - 15)

\* a < b; false when either is NaN.
FLt(a, b) == IF IsNaN(a) \/ IsNaN(b) THEN FALSE ELSE FSub(a, b)[1] < 0

\* a <= b; false when either is NaN.
FLe(a, b) == IF IsNaN(a) \/ IsNaN(b) THEN FALSE ELSE FSub(b, a)[1] > 0

\* The remainder words of <<rh, rl>> * 10^k by <<bh, bl>>.
RECURSIVE ModDigits(_, _, _, _)
ModDigits(r, bh, bl, k) ==
    IF k = 0 \/ r = <<0, 0>> THEN r
    ELSE ModDigits(DivStep(r[1] * 10 + ((r[2] * 10) \div WORD), (r[2] * 10) % WORD,
                           bh, bl)[2], bh, bl, k - 1)

\* The remainder r of |a| by b, given the sign of b.
ModSign(a, b, r) ==
    IF a[1] < 0 /\ (r[1] # 0 \/ r[2] # 0)
    THEN Carry(1, b[2] - r[1], b[3] - r[2], 0, b[4])
    ELSE Pack(1, r[1], r[2], 0, b[4])

\* Python's a % b for b > 0: the result has the sign of b.
FMod(a, b) ==
    CASE IsNaN(a) \/ IsNaN(b) \/ b = Zero -> NaN
      [] a = Zero -> Zero
      [] FLt(FAbs(a), b) -> IF a[1] > 0 THEN a ELSE FAdd(a, b)
      [] OTHER ->
           ModSign(a, b, ModDigits(DivStep(a[2], a[3], b[2], b[3])[2], b[2], b[3],
                                   a[4] - b[4]))

One == F(1, 0)

Two == F(2, 0)

\* np.pi
Pi == <<1, 31415926, 53589793, -15>>

HalfPi == <<1, 15707963, 26794897, -15>>

TwoPi == <<1, 62831853, 7179586, -15>>

\* pi - Pi: what np.pi leaves out
PiLow == <<1, 23846264, 33832795, -31>>

\* The argument of sin/cos brought into [-pi, pi].
Reduced(a) ==
    IF FLe(FAbs(a), Pi) THEN a
    ELSE FSub(FMod(FAdd(a, Pi), TwoPi), Pi)

\* 1/(2*3), 1/(4*5), ... and 1/(1*2), 1/(3*4), ...: the ratios of the
\* successive terms of the Taylor series of sin and cos.
SinRatios ==
    << FDiv(One, F(6, 0)), FDiv(One, F(20, 0)), FDiv(One, F(42, 0)), FDiv(One, F(72, 0)),
       FDiv(One, F(110, 0)), FDiv(One, F(156, 0)), FDiv(One, F(210, 0)),
       FDiv(One, F(272, 0)), FDiv(One, F(342, 0)), FDiv(One, F(420, 0)),
       FDiv(One, F(506, 0)) >>

CosRatios ==
    << FDiv(One, F(2, 0)), FDiv(One, F(12, 0)), FDiv(One, F(30, 0)), FDiv(One, F(56, 0)),
       FDiv(One, F(90, 0)), FDiv(One, F(132, 0)), FDiv(One, F(182, 0)),
       FDiv(One, F(240, 0)), FDiv(One, F(306, 0)), FDiv(One, F(380, 0)),
       FDiv(One, F(462, 0)), FDiv(One, F(552, 0)) >>

\* 1 - r2*c[1] * (1 - r2*c[2] * (...)): a Taylor polynomial in Horner form,
\* from the innermost bracket outwards; acc is the bracket of c[k + 1].
RECURSIVE Horner(_, _, _, _)
Horner(r2, c, k, acc) ==
    IF k = 0 \/ IsNaN(acc) THEN acc
    ELSE Horner(r2, c, k - 1, FSub(One, FMul(FMul(r2, c[k]), acc)))

\* sin on [0, pi/2]
SinPoly(r) == FMul(r, Horner(FMul(r, r), SinRatios, Len(SinRatios), One))

\* cos on [0, pi/2]
CosPoly(r) == Horner(FMul(r, r), CosRatios, Len(CosRatios), One)

\* pi - r
Reflected(r) == FAdd(FSub(Pi, r), PiLow)

SinReduced(r) ==
    IF r[1] < 0
    THEN FNeg(SinPoly(IF FLt(HalfPi, FAbs(r)) THEN Reflected(FAbs(r)) ELSE FAbs(r)))
    ELSE SinPoly(IF FLt(HalfPi, r) THEN Reflected(r) ELSE r)

\* np.sin
Sin(a) == IF IsNaN(a) THEN NaN ELSE SinReduced(Reduced(a))

CosReduced(s) == IF FLt(HalfPi, s) THEN FNeg(CosPoly(Reflected(s))) ELSE CosPoly(s)

\* np.cos
Cos(a) == IF IsNaN(a) THEN NaN ELSE CosReduced(FAbs(Reduced(a)))

\* Newton's iteration for the square root of a, k steps from s.
RECURSIVE Newton(_, _, _)
Newton(a, s, k) ==
    IF k = 0 \/ IsNaN(s) THEN s
    ELSE Newton(a, FAdd(s, FMul(FSub(FDiv(a, s), s), F(5, -1))), k - 1)

\* The chord of the square root from <<n0, r0>>: a first guess of the root of n
RootChord(n, n0, r0, slope) == r0 + ((n - n0) \div slope)

\* np.sqrt: the root of the leading word by a chord, then Newton steps.
FSqrt(a) ==
    CASE IsNaN(a) \/ a[1] < 0 -> NaN
      [] a = Zero -> Zero
      [] a[4] % 2 = 0 ->
           Newton(a, F(RootChord(a[2], 10000000, 3162, 13162), 4 + (a[4] \div 2)), 6)
      [] OTHER ->
           Newton(a, F(RootChord(a[2] * 10, 100000000, 10000, 41623),
                       4 + ((a[4] - 1) \div 2)), 6)

\* str(float(w)) of Python 2: w printed with 12 significant digits.
StrFloat(w) ==
    IF IsNaN(w) \/ w = Zero THEN w
    ELSE Pack(w[1], w[2], (w[3] \div LIMB) * LIMB, (w[3] % LIMB) * LIMB, w[4])

\* float(True) = 1.0, float(False) = 0.0
FloatOfBool(b) == IF b THEN One ELSE Zero

\* float(0) = 0.0, float(1) = 1.0
FloatOfInt(n) == F(n, 0)

\* ------------------------------------------------------------------------
\* numpy matrices: a matrix is a tuple of rows
\* ------------------------------------------------------------------------

Rows(A) == Len(A)

Cols(A) == Len(A[1])

\* The tuple <<f[1], ..., f[n]>>, every entry evaluated.
RECURSIVE Tuple(_, _)
Tuple(f, n) ==
    CASE n = 0 -> <<>>
      [] n = 4 -> <<f[1], f[2], f[3], f[4]>>
      [] n = 5 -> <<f[1], f[2], f[3], f[4], f[5]>>
      [] n = 8 -> <<f[1], f[2], f[3], f[4], f[5], f[6], f[7], f[8]>>
      [] OTHER -> Append(Tuple(f, n - 1), f[n])

RECURSIVE DotAcc(_, _, _, _, _, _)
DotAcc(A, B, i, j, l, acc) ==
    IF l > Cols(A) \/ IsNaN(acc) THEN acc
    ELSE DotAcc(A, B, i, j, l + 1, FAdd(acc, FMul(A[i][l], B[l][j])))

\* A * B, each entry summed left to right
MatMul(A, B) ==
    Tuple([i \in 1..Rows(A) |->
             Tuple([j \in 1..Cols(B) |-> DotAcc(A, B, i, j, 1, Zero)], Cols(B))],
          Rows(A))

\* A.T
Transpose(A) ==
    Tuple([j \in 1..Cols(A) |-> Tuple([i \in 1..Rows(A) |-> A[i][j]], Rows(A))],
          Cols(A))

\* A + B
MatAdd(A, B) ==
    Tuple([i \in 1..Rows(A) |->
             Tuple([j \in 1..Cols(A) |-> FAdd(A[i][j], B[i][j])], Cols(A))],
          Rows(A))

\* A - B
MatSub(A, B) ==
    Tuple([i \in 1..Rows(A) |->
             Tuple([j \in 1..Cols(A) |-> FSub(A[i][j], B[i][j])], Cols(A))],
          Rows(A))

\* np.diag(d)
Diag(d) ==
    Tuple([i \in 1..Len(d) |->
             Tuple([j \in 1..Len(d) |-> IF i = j THEN d[i] ELSE Zero], Len(d))],
          Len(d))

\* np.eye(n)
Eye(n) == Tuple([i \in 1..n |-> Tuple([j \in 1..n |-> IF i = j THEN One ELSE Zero], n)], n)

AnyNaN(A) == \E i \in 1..Rows(A) : \E j \in 1..Cols(A) : IsNaN(A[i][j])

\* The row r >= c whose entry in column c is largest in magnitude (the first
\* of them): the pivot of LAPACK's partial pivoting.
RECURSIVE PivotRow(_, _, _, _)
PivotRow(M, c, r, best) ==
    IF r > Rows(M) THEN best
    ELSE IF FLt(FAbs(M[best][c]), FAbs(M[r][c]))
         THEN PivotRow(M, c, r + 1, r)
         ELSE PivotRow(M, c, r + 1, best)

\* Rows c and p of M exchanged.
Swapped(M, c, p) ==
    Tuple([i \in 1..Rows(M) |-> IF i = c THEN M[p] ELSE IF i = p THEN M[c] ELSE M[i]],
          Rows(M))

\* Row c of M divided by its pivot.
Scaled(M, c) == Tuple([j \in 1..Cols(M) |-> FDiv(M[c][j], M[c][c])], Cols(M))

\* M with row c replaced by rc and column c cleared from every other row.
Eliminated(M, c, rc) ==
    Tuple([i \in 1..Rows(M) |->
             IF i = c THEN rc
             ELSE Tuple([j \in 1..Cols(M) |-> FSub(M[i][j], FMul(M[i][c], rc[j]))],
                        Cols(M))],
          Rows(M))

\* Gauss-Jordan elimination of the augmented matrix M = [A | I] from column
\* c on; <<>> when a pivot is exactly zero.
RECURSIVE GaussJordan(_, _)
EliminateColumn(M, c) ==
    IF M[c][c] = Zero THEN <<>>
    ELSE GaussJordan(Eliminated(M, c, Scaled(M, c)), c + 1)

GaussJordan(M, c) ==
    IF c > Rows(M) THEN M
    ELSE EliminateColumn(Swapped(M, c, PivotRow(M, c, c, c)), c)

Augmented(A) ==
    Tuple([i \in 1..Rows(A) |->
             Tuple([j \in 1..(2 * Rows(A)) |->
                      IF j <= Rows(A) THEN A[i][j]
                      ELSE IF j - Rows(A) = i THEN One ELSE Zero], 2 * Rows(A))],
          Rows(A))

RightHalf(G) ==
    IF G = <<>> THEN <<>>
    ELSE Tuple([i \in 1..Rows(G) |->
                  Tuple([j \in 1..Rows(G) |-> G[i][j + Rows(G)]], Rows(G))],
               Rows(G))

\* np.linalg.inv(A): the inverse, a matrix of NaN when A holds a NaN, and
\* <<>> when A is singular (numpy raises LinAlgError).
Inv(A) ==
    IF AnyNaN(A)
    THEN Tuple([i \in 1..Rows(A) |-> Tuple([j \in 1..Rows(A) |-> NaN], Rows(A))], Rows(A))
    ELSE RightHalf(GaussJordan(Augmented(A), 1))


\* ------------------------------------------------------------------------
\* Configuration of the script
\* ------------------------------------------------------------------------

\* numstates=5
numstates == 5

\* dt = 1.0/50.0
dt == FDiv(One, F(50, 0))

\* sGPS = 0.5*8.8*dt**2 (the process noise; the name is reused for R below)
sGPS_Q == FMul(FMul(F(5, -1), F(88, -1)), FMul(dt, dt))

\* sCourse = 0.1*dt
sCourse == FMul(F(1, -1), dt)

\* sVelocity = 8.8*dt
sVelocity == FMul(F(88, -1), dt)

\* sYaw = 1.0*dt
sYaw == FMul(One, dt)

\* Q = np.diag([sGPS**2, sGPS**2, sCourse**2, sVelocity**2, sYaw**2])
Q == Diag(<<FMul(sGPS_Q, sGPS_Q), FMul(sGPS_Q, sGPS_Q), FMul(sCourse, sCourse),
            FMul(sVelocity, sVelocity), FMul(sYaw, sYaw)>>)

\* sGPS = 5.0
sGPS_R == F(5, 0)

\* sspeed = 2.0
sspeed == F(2, 0)

\* syaw = 0.01
syaw == F(1, -2)

\* R = np.matrix([[sGPS**2, 0, 0, 0], [0, sGPS**2, 0, 0], [0, 0, sspeed**2, 0],
\*                [0, 0, 0, syaw**2]])
R == << <<FMul(sGPS_R, sGPS_R), Zero, Zero, Zero>>,
        <<Zero, FMul(sGPS_R, sGPS_R), Zero, Zero>>,
        <<Zero, Zero, FMul(sspeed, sspeed), Zero>>,
        <<Zero, Zero, Zero, FMul(syaw, syaw)>> >>

\* P = np.diag([1000.0, 1000.0, 1000.0, 1000.0, 1000.0])
P0 == Diag(<<F(1000, 0), F(1000, 0), F(1000, 0), F(1000, 0), F(1000, 0)>>)

\* I = np.eye(numstates)
I == Eye(numstates)

\* The threshold of the branch test, 0.0001
YawThreshold == F(1, -4)

\* The yaw rate the straight branch stores, 0.0000001
YawEpsilon == F(1, -7)

\* ------------------------------------------------------------------------
\* The data file, as far as the filter reads it
\* ------------------------------------------------------------------------

\* At most this many samples in the data file.
MaxSteps == 3

\* A row of the file: the columns speed (km/h), yawrate (deg/s), course
\* (deg), and the metres dx, dy that latitude and longitude moved since the
\* row before.
Row(sp, yr, co, ddx, ddy) == [speed |-> sp, yawrate |-> yr, course |-> co, dx |-> ddx, dy |-> ddy]

\* The first rows tried: one driving straight on course 300, one turning at
\* 0.003 deg/s, and one whose yaw rate reading, -5.7296617e-13 deg/s, is the
\* value that the first correction turns into a yaw rate estimate of
\* exactly 0.
FirstRows ==
    { Row(F(72, -1), Zero, F(300, 0), Zero, Zero),
      Row(F(36, 0), F(3, -3), F(90, 0), Zero, Zero),
      Row(F(36, 0), F(-57296617, -20), F(90, 0), Zero, Zero) }

\* The rows tried after the first: straight on with a position fix, and a
\* turn at 30 deg/s with no movement (no position fix).
LaterRows ==
    { Row(F(36, 0), Zero, Zero, F(2, -1), Zero),
      Row(F(36, 0), F(30, 0), Zero, Zero, Zero) }

\* measurements = np.vstack((mx, my, speed/3.6, yawrate/180.0*np.pi)), one
\* column; mx = np.cumsum(dx), my = np.cumsum(dy)
Measurement(row, mxPrev, myPrev) ==
    << FAdd(mxPrev, row.dx), FAdd(myPrev, row.dy),
       FDiv(row.speed, F(36, -1)),
       FMul(FDiv(row.yawrate, F(180, 0)), Pi) >>

\* ds = np.sqrt(dx**2+dy**2)
DsOf(row) == FSqrt(FAdd(FMul(row.dx, row.dx), FMul(row.dy, row.dy)))

\* course =(-course+90.0);
\* x = np.matrix([[mx[0], my[0], course[0]/180.0*np.pi, speed[0]/3.6+0.001,
\*                 yawrate[0]/180.0*np.pi]]).T
InitialState(row) ==
    << Zero, Zero,
       FMul(FDiv(FAdd(FNeg(row.course), F(90, 0)), F(180, 0)), Pi),
       FAdd(FDiv(row.speed, F(36, -1)), F(1, -3)),
       FMul(FDiv(row.yawrate, F(180, 0)), Pi) >>

\* ------------------------------------------------------------------------
\* The filter loop
\* ------------------------------------------------------------------------

VARIABLES
    pc,            \* the statement the script is at
    m,             \* measurements.shape[1]
    filterstep,    \* the loop variable
    measurements,  \* the columns of measurements read so far
    yawrate,       \* the column yawrate of the file, read so far
    GPS,           \* the GPS trigger, read so far
    ds,            \* ds of the last row read
    x, P,          \* state and covariance
    ddstate, JH, Z,
    JA, hx, S, K,
    out,           \* the rows written to EKFout.csv after its header
    dstate,        \* the list dstate
    saved,         \* the lists x0..x4, Zx, Zy, Px..Pddx, Kx..Kddx, one record a step
    dwriter,       \* the file under the csv writer: "open" or "closed"
    exit           \* <<>> while the script runs, <<n>> once it has exited with status n

vars == <<pc, m, filterstep, measurements, yawrate, GPS, ds, x, P, ddstate, JH, Z,
          JA, hx, S, K, out, dstate, saved, dwriter, exit>>

process == <<dwriter, exit>>

data == <<m, measurements, yawrate, GPS, ds>>

\* A name not bound yet.
Unset == <<>>

Init ==
    /\ pc = "select"
    /\ m \in 1..MaxSteps
    /\ filterstep = 0
    /\ \E row \in FirstRows :
         /\ measurements = << Measurement(row, Zero, Zero) >>
         /\ yawrate = << row.yawrate >>
         /\ ds = DsOf(row)
         /\ x = InitialState(row)
    /\ GPS = << TRUE >>
    /\ P = P0
    /\ ddstate = Unset /\ JH = Unset /\ Z = Unset
    /\ JA = Unset /\ hx = Unset /\ S = Unset /\ K = Unset
    /\ out = <<>> /\ dstate = <<>> /\ saved = <<>>
    /\ dwriter = "open"
    /\ exit = <<>>

\* The measurement Jacobian with a position fix, and without.
JHfix == << <<One, Zero, Zero, Zero, Zero>>,
            <<Zero, One, Zero, Zero, Zero>>,
            <<Zero, Zero, Zero, One, Zero>>,
            <<Zero, Zero, Zero, Zero, One>> >>

JHnofix == << <<Zero, Zero, Zero, Zero, Zero>>,
              <<Zero, Zero, Zero, Zero, Zero>>,
              <<Zero, Zero, Zero, One, Zero>>,
              <<Zero, Zero, Zero, Zero, One>> >>

\* if np.abs(yawrate[filterstep])<0.0001: ddstate = 0 else: ddstate = 1
BranchOf(yr) == IF FLt(FAbs(yr), YawThreshold) THEN 0 ELSE 1

\* dataout = [x[0],...,x[4],Z[0],...,Z[3],ddstate,GPS[filterstep]];
\* dwriter.writerow([str(float(wwww)) for wwww in dataout])
CsvRow(xx, ZZ, dd, gps) ==
    << StrFloat(xx[1]), StrFloat(xx[2]), StrFloat(xx[3]), StrFloat(xx[4]), StrFloat(xx[5]),
       StrFloat(ZZ[1]), StrFloat(ZZ[2]), StrFloat(ZZ[3]), StrFloat(ZZ[4]),
       StrFloat(FloatOfInt(dd)), StrFloat(FloatOfBool(gps)) >>

\* A straight branch that leaves the yaw rate as it found it.
StraightKeepsYawRate(xx) ==
    << FAdd(xx[1], FMul(FMul(xx[4], dt), Cos(xx[3]))),
       FAdd(xx[2], FMul(FMul(xx[4], dt), Sin(xx[3]))),
       xx[3], xx[4], xx[5] >>

\* if ddstate == 0: the straight branch of the prediction
Straight(xx) ==
    << FAdd(xx[1], FMul(FMul(xx[4], dt), Cos(xx[3]))),
       FAdd(xx[2], FMul(FMul(xx[4], dt), Sin(xx[3]))),
       xx[3], xx[4], YawEpsilon >>

\* The yaw rate reading, in deg/s, that converts to 1e-7 rad/s.
EchoYawRate == <<1, 57295779, 51308232, -21>>

Finite(xx) == \A i \in 1..Len(xx) : ~ IsNaN(xx[i])

\* A row of the file can hold any numbers. The one tried here, besides
\* LaterRows, is the row of a sensor that reads what the filter is about to
\* predict from the state xx on the straight branch: its speed converts to
\* xx[4], its yaw rate to 1e-7, and its position moves to the predicted
\* position.
EchoRows(xx, mxPrev, myPrev) ==
    IF Finite(xx)
    THEN { Row(FMul(xx[4], F(36, -1)), EchoYawRate, Zero,
               FSub(Straight(xx)[1], mxPrev), FSub(Straight(xx)[2], myPrev)) }
    ELSE {}

\* The loop header and the statements up to the row written: sample
\* filterstep is read (the file was loaded whole; a row is drawn here, when
\* the loop first looks at it), the branch flag, JH and Z are set and the
\* row is written.
Select ==
    /\ pc = "select"
    /\ filterstep < m
    /\ \E row \in LaterRows \cup EchoRows(x, measurements[Len(measurements)][1],
                                          measurements[Len(measurements)][2]) :
         \E meas \in {IF filterstep < Len(measurements) THEN measurements
                      ELSE Append(measurements,
                                  Measurement(row, measurements[Len(measurements)][1],
                                              measurements[Len(measurements)][2]))},
            yaws \in {IF filterstep < Len(measurements) THEN yawrate
                      ELSE Append(yawrate, row.yawrate)},
            \* GPS=np.hstack((True, (np.diff(ds)>0.0).astype('bool')))
            gpss \in {IF filterstep < Len(measurements) THEN GPS
                      ELSE Append(GPS, FLt(Zero, FSub(DsOf(row), ds)))} :
              /\ measurements' = meas
              /\ yawrate' = yaws
              /\ GPS' = gpss
              /\ ds' = IF filterstep < Len(measurements) THEN ds ELSE DsOf(row)
              /\ ddstate' = BranchOf(yaws[filterstep + 1])
              /\ JH' = IF gpss[filterstep + 1] THEN JHfix ELSE JHnofix
              /\ Z' = meas[filterstep + 1]
              /\ out' = Append(out, CsvRow(x, meas[filterstep + 1],
                                           BranchOf(yaws[filterstep + 1]),
                                           gpss[filterstep + 1]))
    /\ pc' = "predict"
    /\ UNCHANGED <<m, filterstep, x, P, JA, hx, S, K, dstate, saved, process>>

\* x[4]*dt + x[2]
Swept(xx) == FAdd(FMul(xx[5], dt), xx[3])

\* else: the turning branch
Turning(xx) ==
    << FAdd(xx[1], FMul(FDiv(xx[4], xx[5]), FSub(Sin(Swept(xx)), Sin(xx[3])))),
       FAdd(xx[2], FMul(FDiv(xx[4], xx[5]), FAdd(FNeg(Cos(Swept(xx))), Cos(xx[3])))),
       FSub(FMod(FAdd(FAdd(xx[3], FMul(xx[5], dt)), Pi), FMul(Two, Pi)), Pi),
       xx[4], xx[5] >>

\* sin(x[4]*dt+x[2]) - sin(x[2]), -cos(x[4]*dt+x[2]) + cos(x[2]) and the like
SinDiff(xx) == FSub(Sin(Swept(xx)), Sin(xx[3]))

CosDiff(xx) == FSub(Cos(Swept(xx)), Cos(xx[3]))

NegCosDiff(xx) == FAdd(FNeg(Cos(Swept(xx))), Cos(xx[3]))

a13(xx) == FMul(FDiv(xx[4], xx[5]), CosDiff(xx))

a14(xx) == FMul(FDiv(One, xx[5]), SinDiff(xx))

a15(xx) ==
    FSub(FMul(FDiv(FMul(dt, xx[4]), xx[5]), Cos(Swept(xx))),
         FMul(FDiv(xx[4], FMul(xx[5], xx[5])), SinDiff(xx)))

a23(xx) == FMul(FDiv(xx[4], xx[5]), SinDiff(xx))

a24(xx) == FMul(FDiv(One, xx[5]), NegCosDiff(xx))

a25(xx) ==
    FSub(FMul(FDiv(FMul(dt, xx[4]), xx[5]), Sin(Swept(xx))),
         FMul(FDiv(xx[4], FMul(xx[5], xx[5])), NegCosDiff(xx)))

\* JA, evaluated at xx
JacobianAt(xx) ==
    << <<One, Zero, a13(xx), a14(xx), a15(xx)>>,
           <<Zero, One, a23(xx), a24(xx), a25(xx)>>,
           <<Zero, Zero, One, Zero, dt>>,
           <<Zero, Zero, Zero, One, Zero>>,
           <<Zero, Zero, Zero, Zero, One>> >>

\* A prediction that evaluates the Jacobian in the same statement, at the
\* state it started from, and goes on to the covariance.
PredictWithStaleJacobian ==
    /\ pc = "predict"
    /\ x' = IF ddstate = 0 THEN Straight(x) ELSE Turning(x)
    /\ JA' = JacobianAt(x)
    /\ dstate' = Append(dstate, ddstate)
    /\ pc' = "covprop"
    /\ UNCHANGED <<data, process, filterstep, P, ddstate, JH, Z, hx, S, K, out, saved>>

\* Time Update (Prediction): project the state ahead
Predict ==
    /\ pc = "predict"
    /\ x' = IF ddstate = 0 THEN Straight(x) ELSE Turning(x)
    /\ dstate' = Append(dstate, ddstate)
    /\ pc' = "jacobian"
    /\ UNCHANGED <<data, process, filterstep, P, ddstate, JH, Z, JA, hx, S, K, out, saved>>

\* Calculate the Jacobian of the Dynamic Matrix A
Jacobian ==
    /\ pc = "jacobian"
    /\ JA' = JacobianAt(x)
    /\ pc' = "covprop"
    /\ UNCHANGED <<data, process, filterstep, x, P, ddstate, JH, Z, hx, S, K, out, dstate, saved>>

\* P = JA*P*JA.T + Q
Propagate(A, PP) == MatAdd(MatMul(MatMul(A, PP), Transpose(A)), Q)

\* Project the error covariance ahead
CovProp ==
    /\ pc = "covprop"
    /\ P' = Propagate(JA, P)
    /\ pc' = "gain"
    /\ UNCHANGED <<data, process, filterstep, x, ddstate, JH, Z, JA, hx, S, K, out, dstate, saved>>

\* hx = np.matrix([[float(x[0])], [float(x[1])], [float(x[3])], [float(x[4])]])
MeasurementOf(xx) == << xx[1], xx[2], xx[4], xx[5] >>

\* S = JH*P*JH.T + R
InnovationCov(H, PP) == MatAdd(MatMul(MatMul(H, PP), Transpose(H)), R)

\* K = (P*JH.T) * np.linalg.inv(S)
GainWith(H, PP, Si) == IF Si = <<>> THEN <<>> ELSE MatMul(MatMul(PP, Transpose(H)), Si)

GainOf(H, PP, SS) == GainWith(H, PP, Inv(SS))

\* Measurement Update (Correction): hx, S and K
Gain ==
    /\ pc = "gain"
    /\ hx' = MeasurementOf(x)
    /\ \E SS \in {InnovationCov(JH, P)} :
         /\ S' = SS
         /\ \E KK \in {GainOf(JH, P, SS)} :
              /\ K' = KK
              /\ pc' = IF KK = <<>> THEN "LinAlgError" ELSE "update"
    /\ UNCHANGED <<data, process, filterstep, x, P, ddstate, JH, Z, JA, out, dstate, saved>>

Col(v) == [i \in 1..Len(v) |-> <<v[i]>>]

Vec(A) == [i \in 1..Rows(A) |-> A[i][1]]

\* A correction that adds the gain times the measurement, not the residual.
CorrectedNoResidual(xx, KK, ZZ, hh) ==
    Vec(MatAdd(Col(xx), MatMul(KK, Col(ZZ))))

\* y = Z - (hx); x = x + (K*y)
Corrected(xx, KK, ZZ, hh) ==
    Vec(MatAdd(Col(xx), MatMul(KK, MatSub(Col(ZZ), Col(hh)))))

Update ==
    /\ pc = "update"
    /\ x' = Corrected(x, K, Z, hx)
    /\ pc' = "covupdate"
    /\ UNCHANGED <<data, process, filterstep, P, ddstate, JH, Z, JA, hx, S, K, out, dstate, saved>>

\* P = (I - (K*JH))*P
CovCorrected(KK, H, PP) == MatMul(MatSub(I, MatMul(KK, H)), PP)

\* Update the error covariance, save the states for plotting, and go round
CovUpdate ==
    /\ pc = "covupdate"
    /\ \E PP \in {CovCorrected(K, JH, P)} :
         /\ P' = PP
         /\ saved' = Append(saved,
                       [x |-> x, Z |-> <<Z[1], Z[2]>>,
                        P |-> [i \in 1..numstates |-> PP[i][i]],
                        K |-> [i \in 1..numstates |-> K[i][1]]])
    /\ filterstep' = filterstep + 1
    /\ pc' = "select"
    /\ UNCHANGED <<data, process, x, ddstate, JH, Z, JA, hx, S, K, out, dstate>>

\* range(m) is exhausted: the statements after the loop
LoopExit ==
    /\ pc = "select"
    /\ filterstep = m
    /\ pc' = "close"
    /\ UNCHANGED <<data, process, filterstep, x, P, ddstate, JH, Z, JA, hx, S, K, out, dstate, saved>>

\* dwriter.close(): dwriter is the csv.writer of line 407, and a csv.writer
\* has no attribute close. The AttributeError is not caught: the traceback
\* is printed and the interpreter exits with status 1. sys.exit(0) of the
\* next line and the plots after it are not reached, and the file was not
\* closed by the script.
Close ==
    /\ pc = "close"
    /\ pc' = "AttributeError"
    /\ exit' = <<1>>
    /\ UNCHANGED <<data, dwriter, filterstep, x, P, ddstate, JH, Z, JA, hx, S, K, out,
                   dstate, saved>>

Next ==
    \/ Select
    \/ Predict
    \/ Jacobian
    \/ CovProp
    \/ Gain
    \/ Update
    \/ CovUpdate
    \/ LoopExit
    \/ Close

Spec == Init /\ [][Next]_vars

\* ------------------------------------------------------------------------
\* Properties
\* ------------------------------------------------------------------------

\* C1: at every step the straight branch is taken if and only if the
\* magnitude of the state's yaw rate x[4], in rad/s, on entry to the step is
\* below 0.0001, and the flag recorded for the step is 0 for straight and 1
\* for turning.
BranchFollowsStateYawRate ==
    pc = "predict" =>
        /\ ddstate \in {0, 1}
        /\ (ddstate = 0) <=> FLt(FAbs(x[5]), YawThreshold)
        /\ out[filterstep + 1][10] = StrFloat(FloatOfInt(ddstate))

HeadingWrappedAfterPrediction ==
    pc = "jacobian" => FLt(FNeg(Pi), x[3]) /\ FLe(x[3], Pi)

\* C4: every sample has exactly one record in the output file, and the
\* record of sample k holds the state as corrected with sample k, the
\* measurement of sample k, its branch flag and its position-fix flag.
RecordHoldsCorrectedState ==
    pc = "select" =>
        /\ Len(out) = filterstep
        /\ \A k \in 1..filterstep :
             out[k] = CsvRow(saved[k].x, measurements[k], dstate[k], GPS[k])

\* The positions tried in place of Z[0], Z[1].
OtherPositions == {Zero, One, F(-25, 0)}

SameNumbers(a, b) == \A i \in 1..Len(a) : ~ IsNaN(a[i]) /\ a[i] = b[i]

\* C7: in a step whose measurement Z equals the measurement hx predicted
\* from the predicted state, the correction leaves the state as predicted,
\* with a position fix and without.
ZeroInnovationKeepsState ==
    [][(pc = "update" /\ SameNumbers(Z, MeasurementOf(x))) => x' = x]_vars

\* A step without a position fix has corrected a state whose measurement
\* was exactly the one predicted, after a step with a fix that did so too.
ZeroInnovationSeen ==
    /\ pc = "covupdate"
    /\ filterstep = 2
    /\ SameNumbers(Z, hx)
    /\ JH = JHnofix
    /\ hx = MeasurementOf(x)
    /\ GPS[2]
    /\ saved[2].x[1] = saved[2].Z[1] /\ saved[2].x[2] = saved[2].Z[2]

\* The tolerance within which P is compared with its transpose, relative to
\* its diagonal.
Tolerance == F(1, -9)

\* P[i][j] and P[j][i] differ by no more than the tolerance allows for
\* entries of the size of the diagonal entries of their rows.
Nearly(PP, i, j) ==
    FLe(FAbs(FSub(PP[i][j], PP[j][i])),
        FMul(Tolerance, FAdd(FAbs(PP[i][i]), FAbs(PP[j][j]))))

StraightBranchFrame ==
    [][(pc = "predict" /\ ddstate = 0) =>
          /\ x'[1] = FAdd(x[1], FMul(FMul(x[4], dt), Cos(x[3])))
          /\ x'[2] = FAdd(x[2], FMul(FMul(x[4], dt), Sin(x[3])))
          /\ x'[3] = x[3]
          /\ x'[4] = x[4]
          /\ x'[5] = F(1, -7)
          /\ x'[5] # Zero]_vars

\* A straight step has been predicted from a state whose yaw rate was not
\* 0.0000001, and has moved the position.
StraightBranchTaken ==
    /\ pc = "jacobian"
    /\ ddstate = 0
    /\ filterstep >= 1
    /\ x[5] = YawEpsilon
    /\ saved[filterstep].x[5] # YawEpsilon
    /\ x[1] # saved[filterstep].x[1]

\* The statement that follows each statement of the loop body.
Successor(p) ==
    CASE p = "predict" -> "jacobian"
      [] p = "jacobian" -> "covprop"
      [] p = "covprop" -> "gain"
      [] p = "gain" -> "update"
      [] p = "update" -> "covupdate"
      [] p = "covupdate" -> "select"
      [] OTHER -> p

\* C10: every tick runs prediction, the Jacobian at the predicted state,
\* covariance propagation, S and K from the propagated covariance, the state
\* update and the covariance update, in this order and none skipped; a tick
\* ends before the next starts, and the samples are taken in increasing
\* order.
PhasesInOrder ==
    [][/\ pc \notin {"select", "close"} => pc' = Successor(pc)
       /\ pc = "select" =>
            /\ pc' = (IF filterstep < m THEN "predict" ELSE "close")
            /\ filterstep < m => Z' = measurements'[filterstep + 1]
       /\ pc = "predict" => Len(dstate') = filterstep + 1
       /\ pc = "jacobian" => Len(dstate) = filterstep + 1 /\ JA' = JacobianAt(x) /\ x' = x
       /\ pc = "covprop" => P' = Propagate(JA', P) /\ x' = x
       /\ pc = "gain" => S' = InnovationCov(JH, P) /\ K' = GainOf(JH, P, S') /\ P' = P
       /\ pc = "update" => x' = Corrected(x, K', Z, hx) /\ P' = P
       /\ pc = "covupdate" => P' = CovCorrected(K, JH, P) /\ Len(saved') = filterstep + 1
       /\ filterstep' = (IF pc = "covupdate" THEN filterstep + 1 ELSE filterstep)]_vars

\* All the samples have been through all the statements of the loop body.
AllTicksDone ==
    /\ pc = "close"
    /\ filterstep = MaxSteps
    /\ Len(dstate) = MaxSteps /\ Len(saved) = MaxSteps /\ Len(out) = MaxSteps

\* C11: for any m samples the run does exactly m filter steps and then ends
\* normally: no error is raised, and when it has ended the writer is closed
\* and the exit status is 0.
EndsNormally ==
    /\ pc \notin {"LinAlgError", "AttributeError"}
    /\ exit # <<>> => /\ exit = <<0>>
                      /\ dwriter = "closed"
                      /\ filterstep = m /\ Len(saved) = m
====
